---- MODULE Spec2Model ----
(***************************************************************************)
(* Repository acquisition and conversion pipeline of the DAPT curation     *)
(* tutorial (tutorials/dapt-curation/download_github.py).                  *)
(*                                                                         *)
(* A file or directory name is a sequence of one-character strings, a      *)
(* path is a sequence of names (its components, as os.path.join builds     *)
(* them and str.split(os.sep) takes them apart), and the content of a file *)
(* is a sequence of byte tokens.                                           *)
(***************************************************************************)
EXTENDS Integers, Sequences, FiniteSets, TLC

\* ------------------------------------------------------------------------
\* Bounds of the model
\* ------------------------------------------------------------------------

\* number of invocations of download_github_sources in one behaviour
MaxRuns == 2

\* ------------------------------------------------------------------------
\* Strings
\* ------------------------------------------------------------------------

\* str.lower() on one character
ToLower ==
    [A |-> "a", B |-> "b", C |-> "c", D |-> "d", E |-> "e", F |-> "f",
     G |-> "g", H |-> "h", I |-> "i", J |-> "j", K |-> "k", L |-> "l",
     M |-> "m", N |-> "n", O |-> "o", P |-> "p", Q |-> "q", R |-> "r",
     S |-> "s", T |-> "t", U |-> "u", V |-> "v", W |-> "w", X |-> "x",
     Y |-> "y", Z |-> "z"]

\* str.lower()
Lower(s) ==
    [k \in 1..Len(s) |-> IF s[k] \in DOMAIN ToLower THEN ToLower[s[k]] ELSE s[k]]

\* str.startswith(".")
StartsWithDot(s) == Len(s) > 0 /\ s[1] = "."

\* os.path.basename of a path given by its components
Basename(path) == IF Len(path) = 0 THEN <<>> ELSE path[Len(path)]

\* str.rfind("."), 1-based, 0 when there is no dot
LastDot(s) ==
    LET dots == {k \in 1..Len(s) : s[k] = "."}
    IN  IF dots = {} THEN 0 ELSE CHOOSE k \in dots : \A j \in dots : j <= k

\* os.path.splitext of a file name: the extension starts at the last dot,
\* unless only dots precede that dot (leading dots are part of the stem)
SplitExt(filename) ==
    LET d == LastDot(filename)
    IN  IF d > 0 /\ \E k \in 1..(d - 1) : filename[k] # "."
        THEN <<SubSeq(filename, 1, d - 1), SubSeq(filename, d, Len(filename))>>
        ELSE <<filename, <<>>>>

\* ------------------------------------------------------------------------
\* Extension/name classifier
\* ------------------------------------------------------------------------

\* the static table, as <<key, category>> pairs
SUPPORTED_EXTENSIONS_TO_CATEGORY ==
    {
       <<<<".", "v", "x">>, "Viva">>,
       <<<<".", "v", "x", "h">>, "Viva">>,
       <<<<".", "v">>, "VerilogVHDL">>,
       <<<<".", "v", "h">>, "VerilogVHDL">>,
       <<<<".", "v", "h", "d", "l">>, "VerilogVHDL">>,
       <<<<".", "v", "a">>, "VerilogAnalog">>,
       <<<<".", "c">>, "CPP">>,
       <<<<".", "c", "p", "p">>, "CPP">>,
       <<<<".", "h">>, "CPP">>,
       <<<<".", "h", "p", "p">>, "CPP">>,
       <<<<".", "p", "y">>, "Python">>,
       <<<<".", "c", "o", "n", "f", "i", "g">>, "Config">>,
       <<<<".", "m", "k">>, "Makefile">>,
       <<<<"m", "a", "k", "e", "f", "i", "l", "e">>, "Makefile">>,
       <<<<"m", "a", "k", "e", "p", "p", "f", "i", "l", "e">>, "Makefile">>,
       <<<<".", "p", "m">>, "Perl">>,
       <<<<".", "p", "l">>, "Perl">>,
       <<<<".", "t", "c", "l">>, "Tcl">>,
       <<<<".", "s", "p", "e", "c">>, "Spec">>,
       <<<<".", "y", "a", "m", "l">>, "Yaml">>,
       <<<<".", "y", "m", "l">>, "Yaml">>,
       <<<<".", "s", "p">>, "Spice">>,
       <<<<".", "c", "i", "r">>, "Spice">>,
       <<<<".", "c", "m", "d">>, "Spice">>,
       <<<<".", "s", "p", "f">>, "Spice">>,
       <<<<".", "s", "p", "i", "c", "e">>, "Spice">>,
       <<<<".", "t", "x", "t">>, "text">>,
       <<<<".", "j", "s", "o", "n">>, "text">>,
       <<<<".", "x", "m", "l">>, "text">>,
       <<<<".", "h", "t", "m", "l">>, "text">>,
       <<<<".", "p", "d", "f">>, "text">>,
       <<<<".", "m", "d">>, "text">>,
       <<<<>>, "text">>
    }

\* key in SUPPORTED_EXTENSIONS_TO_CATEGORY
Supported(key) == \E e \in SUPPORTED_EXTENSIONS_TO_CATEGORY : e[1] = key

\* SUPPORTED_EXTENSIONS_TO_CATEGORY[key]
CategoryOf(key) ==
    (CHOOSE e \in SUPPORTED_EXTENSIONS_TO_CATEGORY : e[1] = key)[2]

None == "None"

\* the category resolved by convert_file_to_json for a file name, or None
ResolveCategory(filename) ==
    LET parts           == SplitExt(filename)
        filename_no_ext == Lower(parts[1])
        ext             == Lower(parts[2])
    IN  IF ~Supported(ext)
        THEN IF ~Supported(filename_no_ext)
             THEN None
             ELSE CategoryOf(filename_no_ext)
        ELSE CategoryOf(ext)

\* ------------------------------------------------------------------------
\* File decoder
\* ------------------------------------------------------------------------

\* Byte tokens: "a" is an ASCII letter, "nl" the newline byte 0x0A, "c3"
\* and "a9" the two bytes of one UTF-8 encoded character, "ff" a byte that
\* is valid in no UTF-8 sequence, "00" a NUL byte of binary data.
AsciiBytes == {"a", "nl"}

\* chardet.detect(content)["encoding"]: nothing is detected for an empty
\* buffer and for binary data, pure ASCII is reported as ASCII, and any
\* other buffer is guessed to be UTF-8
Detect(content) ==
    IF content = <<>> THEN None
    ELSE IF \A k \in 1..Len(content) : content[k] \in AsciiBytes THEN "ASCII"
    ELSE IF \E k \in 1..Len(content) : content[k] = "00" THEN None
    ELSE "UTF-8"

\* the outcome of bytes.decode: the text, or a UnicodeDecodeError
Decoded(text) == [ok |-> TRUE, text |-> text]
DecodeError == [ok |-> FALSE, text |-> <<>>]

RECURSIVE DecodeUtf8(_)
\* bytes.decode("utf-8")
DecodeUtf8(bytes) ==
    IF bytes = <<>> THEN Decoded(<<>>)
    ELSE IF bytes[1] \in AsciiBytes
         THEN LET rest == DecodeUtf8(Tail(bytes))
              IN  IF ~rest.ok THEN DecodeError
                  ELSE Decoded(<<IF bytes[1] = "nl" THEN "\n" ELSE bytes[1]>>
                               \o rest.text)
    ELSE IF bytes[1] = "c3" /\ Len(bytes) >= 2 /\ bytes[2] = "a9"
         THEN LET rest == DecodeUtf8(Tail(Tail(bytes)))
              IN  IF ~rest.ok THEN DecodeError
                  ELSE Decoded(<<"e'">> \o rest.text)
    ELSE DecodeError

\* content.decode(encoding)
Decode(content, encoding) ==
    IF encoding = "ASCII"
    THEN IF \A k \in 1..Len(content) : content[k] \in AsciiBytes
         THEN Decoded([k \in 1..Len(content) |->
                          IF content[k] = "nl" THEN "\n" ELSE content[k]])
         ELSE DecodeError
    ELSE DecodeUtf8(content)

\* str.count("\n")
CountNewlines(text) == Cardinality({k \in 1..Len(text) : text[k] = "\n"})

\* ------------------------------------------------------------------------
\* Document builder
\* ------------------------------------------------------------------------

\* the three outcomes of convert_file_to_json: a record, None, an exception
Record(doc) == [kind |-> "record", doc |-> <<doc>>]
NotEligible == [kind |-> "none", doc |-> <<>>]
Raised == [kind |-> "raise", doc |-> <<>>]

\* convert_file_to_json(input_fp), where file is what the filesystem holds
\* at input_fp; open() raises for a file that cannot be read
convert_file_to_json(input_fp, file) ==
    LET filename == Basename(input_fp)
        ext      == Lower(SplitExt(filename)[2])
        category == ResolveCategory(filename)
    IN  IF category = None THEN NotEligible
        ELSE IF ~file.readable THEN Raised
        ELSE LET encoding == Detect(file.content)
             IN  IF encoding = None THEN NotEligible
                 ELSE LET content == Decode(file.content, encoding)
                      IN  IF ~content.ok THEN NotEligible
                          ELSE Record(
                               [id             |-> input_fp,
                                text           |-> content.text,
                                file_extension |-> ext,
                                category       |-> category,
                                line_count     |-> CountNewlines(content.text) + 1,
                                size_in_bytes  |-> Len(file.content),
                                path           |-> input_fp])

\* ------------------------------------------------------------------------
\* The manifest and the upstream repositories
\* ------------------------------------------------------------------------

\* the lines of sources/github_repos.jsonl: identifiers owner/name
Manifest ==
    << << <<"a">>, <<"r", "1">> >>,
       << <<"b">>, <<"r", "2">> >>,
       << <<"c">>, <<"r", "3">> >>,
       << <<"d">>, <<"r", "1">> >> >>

\* a repository that an earlier invocation, run with another manifest,
\* cloned and did not get to convert
Leftover == << <<"e">>, <<".", "r", "5">> >>

\* the repositories the model knows, the manifest's first
Sources == Manifest \o <<Leftover>>

\* the values of the limit argument the invocations use; 0 stands for None
\* as well (both are falsy)
Limits == {0, 3}

\* the names a directory of the clone root can have
RepoNames == {Basename(Sources[k]) : k \in 1..Len(Sources)}

\* a file of a repository: its name, its bytes, and whether open() is sure
\* to succeed on it
File(name, content, readable) ==
    [name |-> name, content |-> content, readable |-> readable]

\* one directory of a tree as os.walk reports it: the directory's path
\* below the repository root and the files in it
Dir(rel, files) == [rel |-> rel, files |-> files]

\* what https://github.com/<Sources[k]> holds, in os.walk order
Upstream(k) ==
    CASE k = 1 ->
           << Dir(<<>>,
                  << File(<<"R", ".", "M", "D">>, <<"a", "nl", "a">>, TRUE),
                     File(<<"m", "a", "k", "e", "f", "i", "l", "e">>,
                          <<"a", "nl">>, TRUE),
                     File(<<".", "e", "n", "v">>, <<"a">>, TRUE) >>),
              Dir(<< <<".", "g", "i", "t">> >>,
                  << File(<<"c", "o", "n", "f", "i", "g">>, <<"a">>, TRUE) >>),
              Dir(<< <<".", "g", "i", "t">>, <<"h", "o", "o", "k", "s">> >>,
                  << File(<<"h", ".", "p", "y">>, <<"a">>, TRUE) >>),
              Dir(<< <<"s", "r", "c">> >>,
                  << File(<<"m", ".", "P", "Y">>, <<"c3", "a9", "nl">>, TRUE),
                     File(<<"x", ".", "b", "i", "n">>, <<"a">>, TRUE),
                     File(<<"e", ".", "t", "x", "t">>, <<>>, TRUE),
                     File(<<"u", ".", "t", "x", "t">>, <<"a", "ff">>, TRUE),
                     File(<<"n", ".", "c">>, <<"00", "a">>, TRUE) >>) >>
      [] k = 2 ->
           << Dir(<<>>,
                  << File(<<"b", ".", "c">>, <<"a">>, TRUE),
                     File(<<"l", ".", "p", "y">>, <<"a", "nl">>, FALSE),
                     File(<<"z", ".", "t", "x", "t">>, <<"a">>, TRUE) >>) >>
      [] k = 3 ->
           << Dir(<<>>,
                  << File(<<"t", ".", "v">>, <<"a">>, TRUE),
                     File(<<"q", ".", "b", "i", "n">>, <<"a">>, FALSE),
                     File(<<".", "k">>, <<"a">>, FALSE) >>),
              Dir(<< <<"d">> >>, <<>>),
              Dir(<< <<"d">>, <<".", "h">> >>,
                  << File(<<"k", ".", "c">>, <<"a">>, TRUE) >>),
              Dir(<< <<"d">>, <<".", "h">>, <<"e">> >>,
                  << File(<<"j", ".", "p", "y">>, <<"a">>, TRUE) >>) >>
      [] k = 4 ->
           << Dir(<<>>,
                  << File(<<"w", ".", "y", "m", "l">>, <<"a">>, TRUE),
                     File(<<"M", "a", "k", "e", "f", "i", "l", "e", ".", "a", "m">>,
                          <<"a">>, TRUE) >>) >>
      [] OTHER ->
           << Dir(<<>>,
                  << File(<<"f", ".", "p", "y">>, <<"a">>, TRUE) >>),
              Dir(<< <<"s">> >>,
                  << File(<<"g", ".", "m", "d">>, <<"a">>, TRUE) >>) >>

\* what a clone that fails during checkout leaves behind: the repository
\* root with the first files checked out
PartialCheckout(k) ==
    LET files == Upstream(k)[1].files
    IN  << Dir(<<>>, SubSeq(files, 1, IF Len(files) < 2 THEN Len(files) ELSE 2)) >>

\* a directory of the clone root: absent, or cloned from Sources[origin],
\* completely or not
NoDir == [present |-> FALSE, origin |-> 0, partial |-> FALSE]
ClonedDir(k, partial) == [present |-> TRUE, origin |-> k, partial |-> partial]

\* the tree below a directory of the clone root
Tree(dir) ==
    IF ~dir.present THEN <<>>
    ELSE IF dir.partial THEN PartialCheckout(dir.origin)
    ELSE Upstream(dir.origin)

\* os.path.dirname(__file__)
ScriptDir == << <<"t">> >>

\* github_root_dir
github_root_dir ==
    ScriptDir \o << <<"d", "a", "t", "a">>, <<"r", "a", "w">>,
                    <<"g", "i", "t", "h", "u", "b">> >>

\* clone_root_dir
clone_root_dir == github_root_dir \o << <<"r", "e", "p", "o", "s">> >>

\* os.path.join(clone_root_dir, repo_name)
RepoDir(repo_name) == clone_root_dir \o <<repo_name>>

\* an artifact <name>.jsonl of jsonl_dir: absent, or its lines
NoFile == [exists |-> FALSE, lines |-> <<>>]
ArtifactFile(lines) == [exists |-> TRUE, lines |-> lines]

\* ------------------------------------------------------------------------
\* State
\* ------------------------------------------------------------------------

VARIABLES
    repos,           \* the directories of clone_root_dir, by name
    artifacts,       \* the files <name>.jsonl of jsonl_dir, by name
    pc,              \* where download_github_sources is
    run,             \* number of invocations started so far
    urls,            \* the manifest entries of this invocation
    i,               \* index of the entry the clone loop is at
    todo,            \* entries of os.listdir not yet iterated
    cur,             \* the repository convert_repo_to_jsonl is working on
    wi,              \* index of the os.walk entry the walk is at
    fi,              \* index of the file of that entry the walk is at
    jsonl_docs,      \* the records collected by the walk
    written,         \* number of records written to the open artifact
    error,           \* the exception that ended the invocation, if any
    clone_log,       \* history: what the clone loop did for each entry
    applied,         \* history: paths given to convert_file_to_json
    nreads,          \* history: number of open() calls on repository files
    skipped,         \* history: repositories skipped as already converted
    walked,          \* history: os.walk entries consumed, per repository
    startRepos,      \* history: repos when the invocation started
    startArtifacts,  \* history: artifacts when the invocation started
    workers          \* concurrent invocations of convert_repo_to_jsonl

vars ==
    <<repos, artifacts, pc, run, urls, i, todo, cur, wi, fi, jsonl_docs,
      written, error, clone_log, applied, nreads, skipped, walked,
      startRepos, startArtifacts, workers>>

fsVars == <<repos, artifacts>>
walkVars == <<wi, fi, jsonl_docs, written>>
historyVars == <<clone_log, applied, nreads, skipped, walked, startRepos,
                 startArtifacts>>

NoRepo == <<>>

\* download_github_sources converts one repository at a time: it runs no
\* concurrent invocation of convert_repo_to_jsonl
NoWorkers == <<>>

Init ==
    /\ repos = [n \in RepoNames |->
                  IF n = Basename(Leftover)
                  THEN ClonedDir(Len(Sources), FALSE) ELSE NoDir]
    /\ artifacts = [n \in RepoNames |-> NoFile]
    /\ pc = "idle"
    /\ run = 0
    /\ urls = <<>>
    /\ i = 1
    /\ todo = {}
    /\ cur = NoRepo
    /\ wi = 1
    /\ fi = 1
    /\ jsonl_docs = <<>>
    /\ written = 0
    /\ error = "none"
    /\ clone_log = <<>>
    /\ applied = {}
    /\ nreads = 0
    /\ skipped = {}
    /\ walked = [n \in RepoNames |-> 0]
    /\ startRepos = repos
    /\ startArtifacts = artifacts
    /\ workers = NoWorkers

\* ------------------------------------------------------------------------
\* Acquisition orchestrator: download_github_sources
\* ------------------------------------------------------------------------

\* urls[:limit] when limit is truthy, urls otherwise
Truncate(manifest, limit) ==
    IF limit # 0
    THEN SubSeq(manifest, 1, IF limit < Len(manifest) THEN limit ELSE Len(manifest))
    ELSE manifest

\* entry of download_github_sources up to the clone loop
StartRun(limit, manifest_exists) ==
    /\ pc \in {"idle", "done", "aborted"}
    /\ run < MaxRuns
    /\ run' = run + 1
    /\ IF ~manifest_exists
       THEN /\ pc' = "aborted"
            /\ error' = "FileNotFoundError"
            /\ urls' = <<>>
       ELSE /\ pc' = "clone"
            /\ error' = "none"
            /\ urls' = Truncate(Manifest, limit)
    /\ i' = 1
    /\ todo' = {}
    /\ cur' = NoRepo
    /\ wi' = 1
    /\ fi' = 1
    /\ jsonl_docs' = <<>>
    /\ written' = 0
    /\ clone_log' = <<>>
    /\ applied' = {}
    /\ nreads' = 0
    /\ skipped' = {}
    /\ startRepos' = repos
    /\ startArtifacts' = artifacts
    /\ UNCHANGED <<repos, artifacts, walked>>
    /\ UNCHANGED workers

\* an existence check keyed by the whole identifier: the directory counts
\* only when it was cloned from the entry the loop is at
CloneDirExists_sameOrigin(fs, repo_name) ==
    fs[repo_name].present /\ fs[repo_name].origin = i

\* an existence check that never finds the directory
CloneDirExists_never(fs, repo_name) == FALSE

\* os.path.exists(clone_dir)
CloneDirExists(fs, repo_name) == fs[repo_name].present

\* what "git clone" can do: succeed, fail leaving nothing behind, or fail
\* after it created the directory (a checkout that fails)
CloneOutcomes == {"ok", "fail", "fail_dir"}

\* the exit status os.system reports
ExitCode(outcome) == IF outcome = "ok" THEN 0 ELSE 32768

\* the clone root after git clone https://github.com/<Sources[k]> <clone_dir>
GitClone(fs, k, repo_name, outcome) ==
    CASE outcome = "ok"       -> [fs EXCEPT ![repo_name] = ClonedDir(k, FALSE)]
      [] outcome = "fail_dir" -> [fs EXCEPT ![repo_name] = ClonedDir(k, TRUE)]
      [] OTHER                -> fs

\* a clone loop that gives up at the first clone that fails
PcAfterCloneFailure_abort == "aborted"

\* where the clone loop goes after a clone that failed: it continues
PcAfterCloneFailure == "clone"

\* one iteration of the clone loop
CloneStep ==
    /\ pc = "clone"
    /\ i <= Len(urls)
    /\ LET repo_name == Basename(urls[i])
       IN  IF CloneDirExists(repos, repo_name)
           THEN /\ clone_log' = Append(clone_log, "skipped")
                /\ pc' = "clone"
                /\ UNCHANGED repos
           ELSE \E outcome \in CloneOutcomes :
                   /\ repos' = GitClone(repos, i, repo_name, outcome)
                   /\ IF ExitCode(outcome) # 0
                      THEN /\ clone_log' = Append(clone_log, "failed")
                           /\ pc' = PcAfterCloneFailure
                      ELSE /\ clone_log' = Append(clone_log, "ok")
                           /\ pc' = "clone"
    /\ i' = i + 1
    /\ UNCHANGED <<artifacts, run, urls, todo, cur, walkVars, error, applied,
                   nreads, skipped, walked, startRepos, startArtifacts>>
    /\ UNCHANGED workers

\* a listing of this invocation's new clones only
ListDir_new(fs) == {n \in RepoNames : fs[n].present /\ ~startRepos[n].present}

\* os.listdir(clone_root_dir)
ListDir(fs) == {n \in RepoNames : fs[n].present}

\* the clone loop is over: list the clone root
ListRepos ==
    /\ pc = "clone"
    /\ i > Len(urls)
    /\ todo' = ListDir(repos)
    /\ pc' = "convert"
    /\ UNCHANGED <<fsVars, run, urls, i, cur, walkVars, error, historyVars>>
    /\ UNCHANGED workers

\* ------------------------------------------------------------------------
\* Repository walker/converter: convert_repo_to_jsonl
\* ------------------------------------------------------------------------

\* an existence check that never finds the artifact
OutputExists_never(arts, repo_name) == FALSE

\* os.path.exists(output_fp)
OutputExists(arts, repo_name) == arts[repo_name].exists

\* next iteration of the conversion loop, in the order os.listdir gave, and
\* the existence check of convert_repo_to_jsonl; the loop ends and
\* download_github_sources returns when the listing is exhausted
ConvertRepo ==
    /\ pc = "convert"
    /\ IF todo = {}
       THEN /\ pc' = "done"
            /\ UNCHANGED <<todo, cur, skipped>>
       ELSE \E repo \in todo :
               /\ todo' = todo \ {repo}
               /\ cur' = repo
               /\ IF OutputExists(artifacts, repo)
                  THEN /\ pc' = "convert"
                       /\ skipped' = skipped \cup {repo}
                  ELSE /\ pc' = "walk"
                       /\ UNCHANGED skipped
    /\ wi' = 1
    /\ fi' = 1
    /\ jsonl_docs' = <<>>
    /\ written' = 0
    /\ UNCHANGED <<fsVars, run, urls, i, error, clone_log, applied, nreads,
                   walked, startRepos, startArtifacts>>
    /\ UNCHANGED workers

\* a check of the last component of root only
IsHiddenRoot_last(root) == StartsWithDot(root[Len(root)])

\* any(part.startswith(".") for part in root.split(os.sep))
IsHiddenRoot(root) == \E k \in 1..Len(root) : StartsWithDot(root[k])

\* file.startswith(".")
IsHiddenFile(file) == StartsWithDot(file)

\* a collection that keeps the last record only
AppendDoc_replace(docs, jsonl) ==
    IF jsonl.kind = "record" THEN jsonl.doc ELSE docs

\* if jsonl: jsonl_docs.append(jsonl)
AppendDoc(docs, jsonl) ==
    IF jsonl.kind = "record" THEN docs \o jsonl.doc ELSE docs

\* a walk that stops after the first directory
WalkFinished_early(tree, k) == k > 1

\* the for loop over os.walk(repo_dir) is exhausted
WalkFinished(tree, k) == k > Len(tree)

\* one step of the walk: the next directory, or the next file of the
\* directory the walk is in
WalkStep ==
    /\ pc = "walk"
    /\ LET tree == Tree(repos[cur])
       IN  IF WalkFinished(tree, wi)
           THEN /\ pc' = "open"
                /\ UNCHANGED <<wi, fi, jsonl_docs, error, applied, nreads, walked>>
           ELSE LET root  == RepoDir(cur) \o tree[wi].rel
                    files == tree[wi].files
                IN  IF IsHiddenRoot(root) \/ fi > Len(files)
                    THEN /\ wi' = wi + 1
                         /\ fi' = 1
                         /\ walked' = [walked EXCEPT ![cur] = wi]
                         /\ pc' = "walk"
                         /\ UNCHANGED <<jsonl_docs, error, applied, nreads>>
                    ELSE IF IsHiddenFile(files[fi].name)
                    THEN /\ fi' = fi + 1
                         /\ pc' = "walk"
                         /\ UNCHANGED <<wi, jsonl_docs, error, applied, nreads, walked>>
                    ELSE LET input_fp == root \o <<files[fi].name>>
                         IN  \E open_ok \in (IF files[fi].readable THEN {TRUE} ELSE BOOLEAN) :
                               LET jsonl == convert_file_to_json(input_fp,
                                               [files[fi] EXCEPT !.readable = open_ok])
                               IN  /\ applied' = applied \cup {input_fp}
                                   /\ nreads' = IF ResolveCategory(files[fi].name) = None
                                                THEN nreads ELSE nreads + 1
                                   /\ IF jsonl.kind = "raise"
                                      THEN /\ pc' = "aborted"
                                           /\ error' = "OSError"
                                           /\ UNCHANGED <<fi, jsonl_docs>>
                                      ELSE /\ pc' = "walk"
                                           /\ jsonl_docs' = AppendDoc(jsonl_docs, jsonl)
                                           /\ fi' = fi + 1
                                           /\ UNCHANGED error
                                   /\ UNCHANGED <<wi, walked>>
    /\ UNCHANGED <<fsVars, run, urls, i, todo, cur, written, clone_log, skipped,
                   startRepos, startArtifacts>>
    /\ UNCHANGED workers

\* json.dumps(jsonl_doc) + "\n"
JsonLine(jsonl_doc) == [json |-> jsonl_doc, newline |-> TRUE]

\* open(output_fp, "w"): the artifact is created empty
OpenArtifact ==
    /\ pc = "open"
    /\ artifacts' = [artifacts EXCEPT ![cur] = ArtifactFile(<<>>)]
    /\ written' = 0
    /\ pc' = "write"
    /\ UNCHANGED <<repos, run, urls, i, todo, cur, wi, fi, jsonl_docs, error,
                   historyVars>>
    /\ UNCHANGED workers

\* output_file.write(line + "\n") for the next record, or the end of the
\* with block and of convert_repo_to_jsonl
WriteStep ==
    /\ pc = "write"
    /\ IF written < Len(jsonl_docs)
       THEN /\ artifacts' = [artifacts EXCEPT ![cur] =
                   ArtifactFile(@.lines \o <<JsonLine(jsonl_docs[written + 1])>>)]
            /\ written' = written + 1
            /\ pc' = "write"
       ELSE /\ pc' = "convert"
            /\ UNCHANGED <<artifacts, written>>
    /\ UNCHANGED <<repos, run, urls, i, todo, cur, wi, fi, jsonl_docs, error,
                   historyVars>>
    /\ UNCHANGED workers

Next ==
    \/ \E limit \in Limits, manifest_exists \in BOOLEAN :
          StartRun(limit, manifest_exists)
    \/ CloneStep
    \/ ListRepos
    \/ ConvertRepo
    \/ WalkStep
    \/ OpenArtifact
    \/ WriteStep

Spec == Init /\ [][Next]_vars

TypeOK ==
    /\ pc \in {"idle", "clone", "convert", "walk", "open", "write", "done", "aborted"}
    /\ run \in 0..MaxRuns
    /\ \A n \in RepoNames : repos[n].present \in BOOLEAN /\ artifacts[n].exists \in BOOLEAN

\* ------------------------------------------------------------------------
\* Concurrent invocations of convert_repo_to_jsonl on one repository
\* ------------------------------------------------------------------------

\* the invocations that run at the same time
Procs == {1, 2}

\* the outcome of a walk so far: the records collected, or an exception
WalkState(raised, docs) == [raised |-> raised, docs |-> docs]

RECURSIVE WalkFiles(_, _, _, _)
\* the inner loop of the walk over the files of one directory; open_ok
\* tells whether open() succeeds on the files it may fail on
WalkFiles(root, files, acc, open_ok) ==
    IF files = <<>> \/ acc.raised THEN acc
    ELSE IF IsHiddenFile(files[1].name)
    THEN WalkFiles(root, Tail(files), acc, open_ok)
    ELSE LET jsonl == convert_file_to_json(root \o <<files[1].name>>,
                         [files[1] EXCEPT !.readable = @ \/ open_ok])
         IN  IF jsonl.kind = "raise"
             THEN WalkState(TRUE, <<>>)
             ELSE WalkFiles(root, Tail(files),
                            WalkState(FALSE, AppendDoc(acc.docs, jsonl)), open_ok)

RECURSIVE WalkDirs(_, _, _, _)
\* the loop over os.walk(repo_dir)
WalkDirs(repo_dir, tree, acc, open_ok) ==
    IF tree = <<>> \/ acc.raised THEN acc
    ELSE LET root == repo_dir \o tree[1].rel
         IN  IF IsHiddenRoot(root)
             THEN WalkDirs(repo_dir, Tail(tree), acc, open_ok)
             ELSE WalkDirs(repo_dir, Tail(tree),
                           WalkFiles(root, tree[1].files, acc, open_ok), open_ok)

\* the whole walk of convert_repo_to_jsonl
WalkRepo(repo_dir, tree, open_ok) ==
    WalkDirs(repo_dir, tree, WalkState(FALSE, <<>>), open_ok)

\* the lines of the artifact of a complete conversion of repository n
CompleteLines(n) ==
    LET docs == WalkRepo(RepoDir(n), Tree(repos[n]), TRUE).docs
    IN  [k \in 1..Len(docs) |-> JsonLine(docs[k])]

\* a stretch of a file that nothing was written to
Hole == [json |-> [id |-> <<>>], newline |-> FALSE]

RECURSIVE Holes(_)
Holes(k) == IF k <= 0 THEN <<>> ELSE Holes(k - 1) \o <<Hole>>

\* a file after a write of line at the writer's own position k
WriteAt(lines, k, line) ==
    IF k <= Len(lines)
    THEN [lines EXCEPT ![k] = line]
    ELSE lines \o Holes(k - 1 - Len(lines)) \o <<line>>

\* an invocation: where it is, the records it collected, the number of
\* lines it wrote, and what its existence check found
Worker(wpc, docs, off, saw) ==
    [pc |-> wpc, docs |-> docs, off |-> off, saw |-> saw]

\* a clone root that holds one repository, no artifact, and every
\* invocation about to run on that repository
ConcInit ==
    /\ \E k \in 1..Len(Sources) :
          /\ repos = [n \in RepoNames |->
                        IF n = Basename(Sources[k]) THEN ClonedDir(k, FALSE) ELSE NoDir]
          /\ cur = Basename(Sources[k])
    /\ artifacts = [n \in RepoNames |-> NoFile]
    /\ pc = "idle"
    /\ run = 0
    /\ urls = <<>>
    /\ i = 1
    /\ todo = {}
    /\ wi = 1
    /\ fi = 1
    /\ jsonl_docs = <<>>
    /\ written = 0
    /\ error = "none"
    /\ clone_log = <<>>
    /\ applied = {}
    /\ nreads = 0
    /\ skipped = {}
    /\ walked = [n \in RepoNames |-> 0]
    /\ startRepos = repos
    /\ startArtifacts = artifacts
    /\ workers = [p \in Procs |-> Worker("check", <<>>, 0, "none")]

seqVars ==
    <<repos, pc, run, urls, i, todo, cur, wi, fi, jsonl_docs, written, error,
      clone_log, applied, nreads, skipped, walked, startRepos, startArtifacts>>

\* the existence check of invocation p
ConcCheck(p) ==
    /\ workers[p].pc = "check"
    /\ IF OutputExists(artifacts, cur)
       THEN workers' = [workers EXCEPT ![p].pc = "skipped",
                           ![p].saw = IF artifacts[cur].lines = CompleteLines(cur)
                                      THEN "complete" ELSE "partial"]
       ELSE workers' = [workers EXCEPT ![p].pc = "walk"]
    /\ UNCHANGED <<artifacts, seqVars>>

\* the walk of invocation p
ConcWalk(p) ==
    /\ workers[p].pc = "walk"
    /\ \E open_ok \in BOOLEAN :
          LET res == WalkRepo(RepoDir(cur), Tree(repos[cur]), open_ok)
          IN  IF res.raised
              THEN workers' = [workers EXCEPT ![p].pc = "raised"]
              ELSE workers' = [workers EXCEPT ![p].pc = "open", ![p].docs = res.docs]
    /\ UNCHANGED <<artifacts, seqVars>>

\* open(output_fp, "w") of invocation p: the file is created or truncated
ConcOpen(p) ==
    /\ workers[p].pc = "open"
    /\ artifacts' = [artifacts EXCEPT ![cur] = ArtifactFile(<<>>)]
    /\ workers' = [workers EXCEPT ![p].pc = "write", ![p].off = 0]
    /\ UNCHANGED seqVars

\* the next write of invocation p, at its own file position, or the end
\* of its with block
ConcWrite(p) ==
    /\ workers[p].pc = "write"
    /\ IF workers[p].off < Len(workers[p].docs)
       THEN /\ artifacts' = [artifacts EXCEPT ![cur] =
                   ArtifactFile(WriteAt(@.lines, workers[p].off + 1,
                                        JsonLine(workers[p].docs[workers[p].off + 1])))]
            /\ workers' = [workers EXCEPT ![p].off = @ + 1]
       ELSE /\ workers' = [workers EXCEPT ![p].pc = "returned"]
            /\ UNCHANGED artifacts
    /\ UNCHANGED seqVars

ConcNext ==
    \E p \in Procs :
       \/ ConcCheck(p)
       \/ ConcWalk(p)
       \/ ConcOpen(p)
       \/ ConcWrite(p)

SpecConc == ConcInit /\ [][ConcNext]_vars

\* ------------------------------------------------------------------------
\* Vocabulary of the properties
\* ------------------------------------------------------------------------

r1 == <<"r", "1">>
r2 == <<"r", "2">>
r3 == <<"r", "3">>

\* a path with a component that begins with ".": a hidden file, or a file
\* at any depth beneath a hidden directory
HiddenPath(path) ==
    \E k \in 1..Len(path) : Len(path[k]) > 0 /\ path[k][1] = "."

RECURSIVE FilesOfDir(_, _)
\* the <<path, file>> pairs of one os.walk entry, in order
FilesOfDir(root, files) ==
    IF files = <<>> THEN <<>>
    ELSE << <<root \o <<files[1].name>>, files[1]>> >> \o FilesOfDir(root, Tail(files))

RECURSIVE FilesOfTree(_, _)
\* the <<path, file>> pairs of a tree, in walk order
FilesOfTree(repo_dir, tree) ==
    IF tree = <<>> THEN <<>>
    ELSE FilesOfDir(repo_dir \o tree[1].rel, tree[1].files)
         \o FilesOfTree(repo_dir, Tail(tree))

\* a file that has a known category and decodes
Decodable(file) ==
    /\ ResolveCategory(file.name) # None
    /\ Detect(file.content) # None
    /\ Decode(file.content, Detect(file.content)).ok

EligibleEntry(e) == ~HiddenPath(e[1]) /\ Decodable(e[2])

\* the directories a name of the clone root can be
DirStates ==
    {NoDir} \cup {ClonedDir(k, p) : k \in 1..Len(Sources), p \in BOOLEAN}

\* the paths of the eligible files below repo_dir, in walk order
EligiblePaths(repo_dir, tree) ==
    LET es == SelectSeq(FilesOfTree(repo_dir, tree), EligibleEntry)
    IN  [k \in 1..Len(es) |-> es[k][1]]

\* EligiblePaths of every name and directory
EligibleTable ==
    [n \in RepoNames |-> [d \in DirStates |-> EligiblePaths(RepoDir(n), Tree(d))]]

\* the paths a complete artifact of repository n has to list, in order
ExpectedPaths(n) == EligibleTable[n][repos[n]]

\* the paths an artifact lists, in order
ArtifactPaths(n) ==
    [k \in 1..Len(artifacts[n].lines) |-> artifacts[n].lines[k].json.path]

\* convert_repo_to_jsonl is between open() and the end of the with block
\* for repository n
MidWrite(n) == pc = "write" /\ cur = n

\* the scenario: three entries, the clone of entry 2 failed, the clones of
\* entries 1 and 3 succeeded
CloneTwoOfThreeFailed ==
    /\ Len(urls) = 3
    /\ clone_log = <<"ok", "failed", "ok">>

\* ------------------------------------------------------------------------
\* Properties
\* ------------------------------------------------------------------------

\* C1: with three manifest entries of which the clone of entry 2 fails and
\* the clones of entries 1 and 3 succeed, entries 1 and 3 are cloned, the
\* clone failure does not abort the run (the run ends early only when a
\* repository file cannot be opened), and a run that returns has converted
\* entries 1 and 3 to an artifact in this run.
C1_CloneFailureIsolated ==
    /\ (Len(urls) = 3 /\ Len(clone_log) >= 2
          /\ clone_log[1] = "ok" /\ clone_log[2] = "failed") =>
          /\ repos[r1] = ClonedDir(1, FALSE)
          /\ pc = "aborted" => error = "OSError"
    /\ CloneTwoOfThreeFailed =>
          /\ repos[r3] = ClonedDir(3, FALSE)
          /\ pc = "done" =>
                /\ artifacts[r1].exists /\ ~startArtifacts[r1].exists
                /\ artifacts[r3].exists /\ ~startArtifacts[r3].exists
                /\ ArtifactPaths(r1) = ExpectedPaths(r1)
                /\ ArtifactPaths(r3) = ExpectedPaths(r3)

C1_Witness ==
    /\ CloneTwoOfThreeFailed
    /\ pc = "done"
    /\ ~artifacts[r2].exists
    /\ Len(artifacts[r1].lines) > 0
    /\ Len(artifacts[r3].lines) > 0

\* C2: when the conversion of one repository raises, every other
\* repository directory of the clone root still gets its artifact in the
\* same run.
C2_WalkFailureIsolated ==
    (pc = "aborted" /\ error = "OSError") =>
        \A n \in RepoNames \ {cur} : repos[n].present => artifacts[n].exists

\* C3: convert_file_to_json is never applied to a hidden file or to a file
\* at any depth beneath a hidden directory, and no such file has a record
\* among the collected records or in an artifact.
C3_HiddenNeverContributes ==
    /\ \A p \in applied : ~HiddenPath(p)
    /\ \A k \in 1..Len(jsonl_docs) : ~HiddenPath(jsonl_docs[k].path)
    /\ \A n \in RepoNames :
          \A k \in 1..Len(artifacts[n].lines) :
             ~HiddenPath(artifacts[n].lines[k].json.path)

C3_Witness ==
    /\ repos[r1] = ClonedDir(1, FALSE)
    /\ artifacts[r1].exists
    /\ ~MidWrite(r1)
    /\ walked[r1] = Len(Upstream(1))
    /\ LET es == FilesOfTree(RepoDir(r1), Upstream(1))
       IN  \E k \in DOMAIN es : HiddenPath(es[k][1]) /\ Decodable(es[k][2])

\* C4: a written artifact lists exactly the files of the repository's tree
\* that are not hidden, not beneath a hidden directory, have a known
\* category and decode, each once, in walk order.
C4_ArtifactExactlyEligible ==
    \A n \in RepoNames :
        (artifacts[n].exists /\ ~MidWrite(n)) =>
            ArtifactPaths(n) = ExpectedPaths(n)

C4_Witness ==
    /\ repos[r1] = ClonedDir(1, FALSE)
    /\ artifacts[r1].exists
    /\ ~MidWrite(r1)
    /\ Len(artifacts[r1].lines) = 3
    /\ Len(FilesOfTree(RepoDir(r1), Upstream(1))) = 10

\* C5: convert_repo_to_jsonl on a repository whose artifact exists opens no
\* repository file, applies convert_file_to_json to nothing, starts no
\* walk and leaves every artifact as it is.
C5_ExistingArtifactSkipped ==
    [][(pc = "convert" /\ todo # {} /\ artifacts[cur'].exists) =>
          /\ artifacts' = artifacts
          /\ nreads' = nreads
          /\ applied' = applied
          /\ pc' = "convert"]_vars

C5_Witness ==
    \E n \in skipped :
        /\ Len(artifacts[n].lines) > 0
        /\ cur = n
        /\ pc = "convert"

\* C6: an invocation that starts when the target directory of every entry
\* of its manifest exists performs no clone operation.
C6_NoCloneWhenAllPresent ==
    (\A k \in 1..Len(urls) : startRepos[Basename(urls[k])].present) =>
        \A k \in 1..Len(clone_log) : clone_log[k] = "skipped"

C6_Witness ==
    /\ run = 2
    /\ pc = "done"
    /\ Len(urls) = Len(Manifest)
    /\ \A k \in 1..Len(urls) : startRepos[Basename(urls[k])].present
    /\ Len(clone_log) = Len(urls)

\* C7: an artifact exists only for a repository whose whole walk has
\* succeeded: the walk has consumed every os.walk entry of the tree, what
\* is in the artifact are records of the completed walk (all of them once
\* the write is over), and a walk that fails part-way leaves no artifact.
C7_ArtifactOnlyAfterFullWalk ==
    /\ \A n \in RepoNames :
          artifacts[n].exists =>
             /\ walked[n] = Len(Tree(repos[n]))
             /\ Len(artifacts[n].lines) <= Len(ExpectedPaths(n))
             /\ ArtifactPaths(n) = SubSeq(ExpectedPaths(n), 1, Len(artifacts[n].lines))
             /\ ~MidWrite(n) => Len(artifacts[n].lines) = Len(ExpectedPaths(n))
    /\ (pc = "aborted" /\ error = "OSError") => ~artifacts[cur].exists

C7_Witness ==
    /\ pc = "aborted"
    /\ error = "OSError"
    /\ Len(jsonl_docs) > 0
    /\ ~artifacts[cur].exists
    /\ \E n \in RepoNames : artifacts[n].exists

\* C8: when an invocation returns, every directory of the clone root has
\* its complete artifact, the directories left by earlier invocations
\* included.
C8_AllLocalReposConverted ==
    pc = "done" =>
        \A n \in RepoNames :
            repos[n].present =>
                artifacts[n].exists /\ ArtifactPaths(n) = ExpectedPaths(n)

C8_Witness ==
    /\ pc = "done"
    /\ \E n \in RepoNames :
          /\ startRepos[n].present
          /\ ~startArtifacts[n].exists
          /\ artifacts[n].exists

\* C9: an entry whose clone failed contributes nothing further: no
\* directory it left behind is converted, so no artifact is ever made from
\* the leftovers of a failed clone.
C9_FailedCloneContributesNothing ==
    \A n \in RepoNames : artifacts[n].exists => ~repos[n].partial

\* C10: every record of a file named makefile has the category Makefile,
\* resolved by the file name and not by the no-extension entry.
C10_MakefileByName ==
    \A n \in RepoNames :
        \A k \in 1..Len(artifacts[n].lines) :
            LET doc == artifacts[n].lines[k].json
            IN  Basename(doc.path) = <<"m", "a", "k", "e", "f", "i", "l", "e">>
                    => doc.category = "Makefile"

\* C11: every file given to convert_file_to_json that has a category and
\* no bytes has a record with line_count 1 and size_in_bytes 0, and every
\* record has line_count equal to the number of newlines of its text plus
\* one and path equal to id.
C11_EmptyFileAccepted ==
    \A n \in RepoNames :
        (artifacts[n].exists /\ ~MidWrite(n)) =>
            /\ LET es == FilesOfTree(RepoDir(n), Tree(repos[n]))
               IN  \A k \in DOMAIN es :
                      (/\ ~HiddenPath(es[k][1])
                       /\ ResolveCategory(es[k][2].name) # None
                       /\ es[k][2].content = <<>>) =>
                          \E j \in 1..Len(artifacts[n].lines) :
                             LET doc == artifacts[n].lines[j].json
                             IN  /\ doc.path = es[k][1]
                                 /\ doc.line_count = 1
                                 /\ doc.size_in_bytes = 0
            /\ \A j \in 1..Len(artifacts[n].lines) :
                  LET doc == artifacts[n].lines[j].json
                  IN  /\ doc.line_count = CountNewlines(doc.text) + 1
                      /\ doc.line_count >= 1
                      /\ doc.path = doc.id

\* C12: of the invocations of convert_repo_to_jsonl that run concurrently
\* on one repository at most one opens the artifact for writing, and no
\* invocation whose existence check finds the artifact finds it partially
\* written.
C12_NoArtifactRace ==
    /\ Cardinality({p \in Procs : workers[p].pc \in {"write", "returned"}}) <= 1
    /\ \A p \in Procs : workers[p].saw # "partial"

\* C13: of the manifest entries that share a basename, once the clone of
\* one has succeeded every later one is skipped as already existing, with
\* no clone attempted; the directory stays the one of that first
\* successful clone, and a run that returns has the one artifact of that
\* basename, made from that clone alone.
C13_SameBasenameClonedOnce ==
    \A j \in 1..Len(clone_log) :
        clone_log[j] = "ok" =>
            /\ \A k \in (j + 1)..Len(clone_log) :
                  Basename(urls[k]) = Basename(urls[j]) => clone_log[k] = "skipped"
            /\ repos[Basename(urls[j])] = ClonedDir(j, FALSE)
            /\ pc = "done" =>
                  /\ artifacts[Basename(urls[j])].exists
                  /\ ArtifactPaths(Basename(urls[j]))
                        = EligibleTable[Basename(urls[j])][ClonedDir(j, FALSE)]

C13_Witness ==
    /\ pc = "done"
    /\ Len(urls) = 4
    /\ Basename(urls[1]) = Basename(urls[4])
    /\ urls[1] # urls[4]
    /\ clone_log[1] = "ok"
    /\ clone_log[4] = "skipped"
    /\ repos[r1] = ClonedDir(1, FALSE)
    /\ Len(artifacts[r1].lines) = 3

====
